---- MODULE Spec2Model ----
(***************************************************************************)
(* MetricsAnalyzer (src/src/metrics_analyzer.py): an ast.NodeVisitor that  *)
(* builds a class registry from the class declarations of one parsed unit  *)
(* and derives DIT, CBO, LCOM and the object-oriented metrics table.       *)
(*                                                                         *)
(* A unit is the sequence of its ClassDef nodes.  A ClassDef node is a     *)
(* record [name, bases, body]; a base is the id of an ast.Name or NonName  *)
(* (any other base expression); a body item is a FunctionDef               *)
(* [kind, name, walk] or a Pass statement; walk is the sequence of the     *)
(* nodes ast.walk yields in the method that analyze_method looks at:       *)
(* [k |-> "self_attr", id |-> a] for the attribute access self.a and       *)
(* [k |-> "name", id |-> x] for an ast.Name x.  Units hold no class        *)
(* nested in another class or in a method.                                 *)
(***************************************************************************)
EXTENDS Integers, Sequences, FiniteSets, TLC

VARIABLES
    tree,                    \* the unit handed to analyzer.visit: Seq of ClassDef
    pos,                     \* index of the next ClassDef the visitor reaches
    pc,                      \* "visit" | "ready" | "dit" | "report"
    classes,                 \* self.classes
    current_class,           \* self.current_class
    inheritance_tree,        \* self.inheritance_tree
    coupling,                \* self.coupling (defaultdict(set))
    methods_per_class,       \* self.methods_per_class (defaultdict(list))
    attributes_per_class,    \* self.attributes_per_class (defaultdict(set))
    method_attribute_usage,  \* self.method_attribute_usage (defaultdict of defaultdict(set))
    caller,                  \* who runs calculate_dit: "api" | "report" | "none"
    dit_arg,                 \* calculate_dit: class_name
    depth,                   \* calculate_dit: depth
    current,                 \* calculate_dit: current
    ri,                      \* generate_report: index in the class-name loop
    report,                  \* generate_report: the table rows appended so far
    returns,                 \* the values returned by the calls completed so far
    calls                    \* number of calls made on the analyzer after visit

registry == <<classes, current_class, inheritance_tree, coupling, methods_per_class,
              attributes_per_class, method_attribute_usage>>

vars == <<tree, pos, pc, classes, current_class, inheritance_tree, coupling,
          methods_per_class, attributes_per_class, method_attribute_usage,
          caller, dit_arg, depth, current, ri, report, returns, calls>>

(***************************************************************************)
(* Bounds of the model.                                                    *)
(***************************************************************************)
\* longest unit among the fully enumerated units
MaxDecls == 2
\* longest method body list among the fully enumerated cohesion classes
MaxBody == 2
\* most methods of a generated many-method class
MaxMethods == 8
\* calls made on the analyzer after the build pass
MaxCalls == 1
\* calculate_dit's depth is exact up to MaxDepth; above it only its parity is kept
MaxDepth == 5
\* most decision points in the method of a generated one-method class
MaxBranches == 2
\* calls of generate_report made in a row
MaxRenders == 2

(***************************************************************************)
(* Program constants.                                                      *)
(***************************************************************************)
\* analyze_method: the names whose ast.Name references count as coupling
KnownClassNames == {"Student", "Course", "Lecturer", "Registrar", "Person"}

\* generate_report: the class names the table loop iterates over, in order
ReportClassNames == <<"Person", "Student", "Course", "Lecturer", "Registrar">>

\* generate_report: the lines of the cyclomatic complexity section
CCLines ==
    <<[class_name |-> "Student", method |-> "calculate_performance", cc |-> 17],
      [class_name |-> "Student", method |-> "register_course", cc |-> 3],
      [class_name |-> "Registrar", method |-> "full_report", cc |-> 4],
      [class_name |-> "", method |-> "main", cc |-> 1]>>

\* generate_report: if cbo > 3
CboLimit == 3
\* generate_report: if lcom > 5
LcomLimit == 5
\* generate_report: if methods > 7
MethodsLimit == 7

None == "None"
\* a base expression that is not an ast.Name (for instance module.Base)
NonName == "<expr>"
\* a class name that no unit declares
Unregistered == "Library"

(***************************************************************************)
(* Python dict / defaultdict helpers.  A dict is a function whose DOMAIN   *)
(* is its key set.                                                         *)
(***************************************************************************)
EmptyDict == [k \in {} |-> {}]

DictGet(d, k, default) == IF k \in DOMAIN d THEN d[k] ELSE default

DictSet(d, k, v) == [x \in (DOMAIN d) \cup {k} |-> IF x = k THEN v ELSE d[x]]

\* d[k] on a defaultdict: a missing key is inserted with the default value
DefaultTouch(d, k, default) == IF k \in DOMAIN d THEN d ELSE DictSet(d, k, default)

(***************************************************************************)
(* The registry as one record, so that the build pass is an operator.      *)
(***************************************************************************)
EmptyRegistry ==
    [classes |-> EmptyDict, inheritance_tree |-> EmptyDict, coupling |-> EmptyDict,
     methods_per_class |-> EmptyDict, attributes_per_class |-> EmptyDict,
     method_attribute_usage |-> EmptyDict]

IsName(base) == base # NonName

\* analyze_method, the coupling test: a known class name other than the class itself
IsCouplingRef_NoSelfTest(id, class_name) == id \in KnownClassNames

IsCouplingRef(id, class_name) == id \in KnownClassNames /\ id # class_name

\* analyze_method with the coupling kept per method: one entry for each
\* (method, name) pair instead of one for each name
AnalyzeNode_PerMethod(r, class_name, method_name, node) ==
    IF node.k = "self_attr"
    THEN LET usage == DictGet(r.method_attribute_usage, class_name, EmptyDict)
         IN  [r EXCEPT
                !.attributes_per_class =
                    DictSet(@, class_name, DictGet(@, class_name, {}) \cup {node.id}),
                !.method_attribute_usage =
                    DictSet(@, class_name,
                            DictSet(usage, method_name,
                                    DictGet(usage, method_name, {}) \cup {node.id}))]
    ELSE IF node.k = "name" /\ IsCouplingRef(node.id, class_name)
         THEN [r EXCEPT !.coupling =
                    DictSet(@, class_name,
                            DictGet(@, class_name, {}) \cup {<<method_name, node.id>>})]
         ELSE r

\* analyze_method with the coupling test made against the classes registered
\* so far
AnalyzeNode_RegisteredSoFar(r, class_name, method_name, node) ==
    IF node.k = "self_attr"
    THEN LET usage == DictGet(r.method_attribute_usage, class_name, EmptyDict)
         IN  [r EXCEPT
                !.attributes_per_class =
                    DictSet(@, class_name, DictGet(@, class_name, {}) \cup {node.id}),
                !.method_attribute_usage =
                    DictSet(@, class_name,
                            DictSet(usage, method_name,
                                    DictGet(usage, method_name, {}) \cup {node.id}))]
    ELSE IF node.k = "name" /\ IsCouplingRef(node.id, class_name)
            /\ node.id \in DOMAIN r.classes
         THEN [r EXCEPT !.coupling =
                    DictSet(@, class_name, DictGet(@, class_name, {}) \cup {node.id})]
         ELSE r

\* analyze_method, the body of its loop for one node of ast.walk(method_node).
\* (The ast.Name "self" inside self.a is a node of the walk too; "self" is no
\* known class name, so the coupling test leaves it alone.)
AnalyzeNode(r, class_name, method_name, node) ==
    IF node.k = "self_attr"
    THEN LET usage == DictGet(r.method_attribute_usage, class_name, EmptyDict)
         IN  [r EXCEPT
                !.attributes_per_class =
                    DictSet(@, class_name, DictGet(@, class_name, {}) \cup {node.id}),
                !.method_attribute_usage =
                    DictSet(@, class_name,
                            DictSet(usage, method_name,
                                    DictGet(usage, method_name, {}) \cup {node.id}))]
    ELSE IF node.k = "name" /\ IsCouplingRef(node.id, class_name)
         THEN [r EXCEPT !.coupling =
                    DictSet(@, class_name, DictGet(@, class_name, {}) \cup {node.id})]
         ELSE r

RECURSIVE WalkFrom(_, _, _, _, _)
WalkFrom(r, class_name, method_name, walk, i) ==
    IF i > Len(walk) THEN r
    ELSE WalkFrom(AnalyzeNode(r, class_name, method_name, walk[i]),
                  class_name, method_name, walk, i + 1)

analyze_method(r, class_name, method_node) ==
    WalkFrom(r, class_name, method_node.name, method_node.walk, 1)

\* visit_ClassDef, "Store inheritance": every ast.Name base overwrites the entry
RECURSIVE StoreInheritance(_, _, _, _)
StoreInheritance(it, name, bases, i) ==
    IF i > Len(bases) THEN it
    ELSE StoreInheritance(IF IsName(bases[i]) THEN DictSet(it, name, bases[i]) ELSE it,
                          name, bases, i + 1)

\* visit_ClassDef, the loop over node.body for one item
VisitItem(r, name, item) ==
    IF item.kind = "FunctionDef"
    THEN analyze_method(
            [r EXCEPT
               !.classes = [@ EXCEPT ![name].methods = Append(@, item.name)],
               !.methods_per_class =
                   DictSet(@, name, Append(DictGet(@, name, <<>>), item.name))],
            name, item)
    ELSE r

RECURSIVE VisitBody(_, _, _, _)
VisitBody(r, name, body, i) ==
    IF i > Len(body) THEN r
    ELSE VisitBody(VisitItem(r, name, body[i]), name, body, i + 1)

\* visit_ClassDef as a function of the registry and the node
VisitClassDef(r, node) ==
    LET entry == [methods |-> <<>>,
                  attributes |-> {},
                  base_classes |-> [i \in 1..Len(node.bases) |->
                                      IF IsName(node.bases[i]) THEN node.bases[i]
                                      ELSE "object"],
                  lines |-> Len(node.body)]
        r1 == [r EXCEPT
                 !.classes = DictSet(@, node.name, entry),
                 !.inheritance_tree = StoreInheritance(@, node.name, node.bases, 1)]
    IN  VisitBody(r1, node.name, node.body, 1)

\* analyzer.visit(tree) on a whole unit, from an empty analyzer
RECURSIVE VisitFrom(_, _, _)
VisitFrom(r, unit, i) ==
    IF i > Len(unit) THEN r ELSE VisitFrom(VisitClassDef(r, unit[i]), unit, i + 1)

Build(unit) == VisitFrom(EmptyRegistry, unit, 1)

(***************************************************************************)
(* The metrics.                                                            *)
(***************************************************************************)
\* calculate_cbo: len(self.coupling[class_name])
CboOf(cpl, class_name) == Cardinality(DictGet(cpl, class_name, {}))

\* calculate_lcom, the test on one pair of method names
SharesAttributes(method_attrs, method1, method2) ==
    DictGet(method_attrs, method1, {}) \cap DictGet(method_attrs, method2, {}) # {}

\* calculate_lcom: the pairs (i, j), i < j, of positions in the method list
MethodPairs(methods) ==
    {ij \in (1..Len(methods)) \X (1..Len(methods)) : ij[1] < ij[2]}

\* calculate_lcom without the early return and with "methods[i:]" for
\* "methods[i+1:]": every method is paired with itself too
LcomOf_PairsWithSelf(mpc, mau, class_name) ==
    LET methods == DictGet(mpc, class_name, <<>>)
        method_attrs == DictGet(mau, class_name, EmptyDict)
        pairs == {ij \in (1..Len(methods)) \X (1..Len(methods)) : ij[1] <= ij[2]}
        q == Cardinality({ij \in pairs :
                SharesAttributes(method_attrs, methods[ij[1]], methods[ij[2]])})
        p == Cardinality({ij \in pairs :
                ~SharesAttributes(method_attrs, methods[ij[1]], methods[ij[2]])})
    IN  IF p - q > 0 THEN p - q ELSE 0

LcomOf(mpc, mau, class_name) ==
    LET methods == DictGet(mpc, class_name, <<>>)
        method_attrs == DictGet(mau, class_name, EmptyDict)
        q == Cardinality({ij \in MethodPairs(methods) :
                SharesAttributes(method_attrs, methods[ij[1]], methods[ij[2]])})
        p == Cardinality({ij \in MethodPairs(methods) :
                ~SharesAttributes(method_attrs, methods[ij[1]], methods[ij[2]])})
    IN  IF Len(methods) <= 1 THEN 0
        ELSE IF p - q > 0 THEN p - q ELSE 0

\* generate_report with "cbo >= 3" for "cbo > 3"
IssuesOf_CboAtLeast(cbo, lcom, methods) ==
    (IF cbo >= CboLimit THEN <<"High coupling">> ELSE <<>>)
    \o (IF lcom > LcomLimit THEN <<"Low cohesion">> ELSE <<>>)
    \o (IF methods > MethodsLimit THEN <<"Too many methods">> ELSE <<>>)

\* generate_report with "methods >= 7" for "methods > 7"
IssuesOf_MethodsAtLeast(cbo, lcom, methods) ==
    (IF cbo > CboLimit THEN <<"High coupling">> ELSE <<>>)
    \o (IF lcom > LcomLimit THEN <<"Low cohesion">> ELSE <<>>)
    \o (IF methods >= MethodsLimit THEN <<"Too many methods">> ELSE <<>>)

\* generate_report with "elif" for the second and third "if"
IssuesOf_Elif(cbo, lcom, methods) ==
    IF cbo > CboLimit THEN <<"High coupling">>
    ELSE IF lcom > LcomLimit THEN <<"Low cohesion">>
    ELSE IF methods > MethodsLimit THEN <<"Too many methods">>
    ELSE <<>>

\* generate_report: the issues list and issue_str of one row
IssuesOf(cbo, lcom, methods) ==
    (IF cbo > CboLimit THEN <<"High coupling">> ELSE <<>>)
    \o (IF lcom > LcomLimit THEN <<"Low cohesion">> ELSE <<>>)
    \o (IF methods > MethodsLimit THEN <<"Too many methods">> ELSE <<>>)

\* ", ".join(issues) if issues else "OK", kept as the sequence of joined pieces
IssueStr(issues) == IF issues = <<>> THEN <<"OK">> ELSE issues

(***************************************************************************)
(* The units the analyzer is run on.                                       *)
(***************************************************************************)
SeqsUpTo(S, n) == UNION {[1..k -> S] : k \in 0..n}

PassItem == [kind |-> "Pass", name |-> "", walk |-> <<>>]

FunctionDef(name, walk) == [kind |-> "FunctionDef", name |-> name, walk |-> walk]

\* a class body must hold a statement: a class without methods holds "pass"
Body(methods) == IF methods = <<>> THEN <<PassItem>> ELSE methods

ClassDef(name, bases, methods) == [name |-> name, bases |-> bases, body |-> Body(methods)]

SelfAttr(a) == [k |-> "self_attr", id |-> a]

NameRef(x) == [k |-> "name", id |-> x]

\* a decision point of a method body: an ast.If node
Branch == [k |-> "branch", id |-> "If"]

\* a declared class name that is not among the names the analyzer hard-codes
OtherClass == "PerformanceCalculator"

\* classes without methods, every unit of at most MaxDecls of them
InhBases ==
    {<<>>, <<"Person">>, <<"Student">>, <<"Person", "Student">>, <<"Student", "Person">>,
     <<"Person", "Course">>, <<NonName>>, <<"Person", NonName>>}

InhNodes == {ClassDef(n, bs, <<>>) : n \in {"Person", "Student"}, bs \in InhBases}

InhUnits == SeqsUpTo(InhNodes, MaxDecls)

\* three classes, each with no base or one base among the three
ChainBases == {<<>>, <<"Person">>, <<"Student">>, <<"Course">>}

ChainUnits ==
    {<<ClassDef("Person", b1, <<>>), ClassDef("Student", b2, <<>>),
       ClassDef("Course", b3, <<>>)>> : b1 \in ChainBases, b2 \in ChainBases,
                                        b3 \in ChainBases}

\* classes with one method holding one reference, every unit of at most MaxDecls
CplNodes ==
    {ClassDef(n, <<>>, <<FunctionDef("m1", <<NameRef(x)>>)>>) :
        n \in {"Student", OtherClass}, x \in {"Student", "Course", OtherClass}}

CplUnits == SeqsUpTo(CplNodes, MaxDecls)

\* one class whose first method holds a run of references and whose second
\* method holds at most one
RefOrder == <<"Course", "Lecturer", "Registrar", "Course", "Person", "Student", "student">>

RefRun(i, j) == [n \in 1..(j - i + 1) |-> NameRef(RefOrder[i + n - 1])]

RefRuns == {RefRun(i, j) : i \in 1..Len(RefOrder), j \in 0..Len(RefOrder)}

RefSingles == {<<>>} \cup {<<NameRef(RefOrder[i])>> : i \in 1..Len(RefOrder)}

RefUnits ==
    {<<ClassDef(n, <<>>, <<FunctionDef("m1", w1), FunctionDef("m2", w2)>>)>> :
        n \in {"Student", OtherClass}, w1 \in RefRuns, w2 \in RefSingles}

\* one class with at most MaxBody methods named f or g over the attributes a, b
CohWalks == {<<>>, <<SelfAttr("a")>>, <<SelfAttr("b")>>, <<SelfAttr("a"), SelfAttr("b")>>}

CohMethods == {FunctionDef(n, w) : n \in {"f", "g"}, w \in CohWalks}

CohUnits == {<<ClassDef("Student", <<"Person">>, ms)>> : ms \in SeqsUpTo(CohMethods, MaxBody)}

\* one class with k distinctly named methods; the methods touch no attribute,
\* all the same attribute, each its own, or each its own and the next
\* method's; the first method holds the first refs references of RefOrder
MethodNames == <<"m1", "m2", "m3", "m4", "m5", "m6", "m7", "m8", "m9", "m10", "m11", "m12">>

AttrNames == <<"a1", "a2", "a3", "a4", "a5", "a6", "a7", "a8", "a9", "a10", "a11", "a12">>

Patterns == {"none", "shared", "own", "chain"}

ManyWalk(i, pattern, refs) ==
    (IF pattern = "none" THEN <<>>
     ELSE IF pattern = "shared" THEN <<SelfAttr(AttrNames[1])>>
     ELSE IF pattern = "own" THEN <<SelfAttr(AttrNames[i])>>
     ELSE <<SelfAttr(AttrNames[i]), SelfAttr(AttrNames[i + 1])>>)
    \o (IF i = 1 THEN RefRun(1, refs) ELSE <<>>)

ManyClass(n, k, pattern, refs) ==
    ClassDef(n, <<>>, [i \in 1..k |-> FunctionDef(MethodNames[i], ManyWalk(i, pattern, refs))])

ManyUnits ==
    {<<ManyClass(n, k, p, refs)>> :
        n \in {"Student", OtherClass}, k \in 0..MaxMethods, p \in Patterns, refs \in {0, 4, 5}}

\* the same class name declared twice
RedeclUnits ==
    {<<ManyClass("Student", k1, p, 0), ManyClass("Student", k2, p, 0)>> :
        k1 \in 0..(MaxMethods \div 2), k2 \in 0..(MaxMethods \div 2), p \in Patterns}

\* one class with one method of the sample program, holding b decision points
BranchUnits ==
    {<<ClassDef("Student", <<>>, <<FunctionDef(m, [i \in 1..b |-> Branch])>>)>> :
        m \in {"register_course", "calculate_performance"}, b \in 0..MaxBranches}

Units ==
    InhUnits \cup ChainUnits \cup CplUnits \cup RefUnits \cup CohUnits \cup ManyUnits
    \cup RedeclUnits \cup BranchUnits

(***************************************************************************)
(* The analyzer.                                                           *)
(***************************************************************************)
Registry ==
    [classes |-> classes, inheritance_tree |-> inheritance_tree, coupling |-> coupling,
     methods_per_class |-> methods_per_class,
     attributes_per_class |-> attributes_per_class,
     method_attribute_usage |-> method_attribute_usage]

\* analyze_file up to analyzer.visit(tree): MetricsAnalyzer() on a parsed unit
Init ==
    /\ tree \in Units
    /\ pos = 1
    /\ pc = IF tree = <<>> THEN "ready" ELSE "visit"
    /\ classes = EmptyDict
    /\ current_class = None
    /\ inheritance_tree = EmptyDict
    /\ coupling = EmptyDict
    /\ methods_per_class = EmptyDict
    /\ attributes_per_class = EmptyDict
    /\ method_attribute_usage = EmptyDict
    /\ caller = "none"
    /\ dit_arg = None
    /\ depth = 0
    /\ current = None
    /\ ri = 0
    /\ report = <<>>
    /\ returns = <<>>
    /\ calls = 0

dit_locals == <<caller, dit_arg, depth, current>>

report_locals == <<ri, report>>

\* the visitor reaches the next class declaration of the unit
visit_ClassDef ==
    /\ pc = "visit"
    /\ pos <= Len(tree)
    /\ LET r == VisitClassDef(Registry, tree[pos])
       IN  /\ classes' = r.classes
           /\ inheritance_tree' = r.inheritance_tree
           /\ coupling' = r.coupling
           /\ methods_per_class' = r.methods_per_class
           /\ attributes_per_class' = r.attributes_per_class
           /\ method_attribute_usage' = r.method_attribute_usage
    /\ current_class' = None
    /\ pos' = pos + 1
    /\ pc' = IF pos' > Len(tree) THEN "ready" ELSE "visit"
    /\ UNCHANGED <<tree, dit_locals, report_locals, returns, calls>>

Return(op, arg, value, rows) == [op |-> op, arg |-> arg, value |-> value, rows |-> rows]

\* calculate_dit(class_name): depth = 0; current = class_name
calculate_dit(class_name) ==
    /\ pc = "ready"
    /\ calls < MaxCalls
    /\ calls' = calls + 1
    /\ pc' = "dit"
    /\ caller' = "api"
    /\ dit_arg' = class_name
    /\ depth' = 0
    /\ current' = class_name
    /\ UNCHANGED <<tree, pos, registry, report_locals, returns>>

\* calculate_dit with the increment lost
NextDepth_NoIncrement(d) == d

\* calculate_dit: depth += 1 (above MaxDepth the value alternates between
\* MaxDepth + 1 and MaxDepth, so that every iteration is a step)
NextDepth(d) == IF d <= MaxDepth THEN d + 1 ELSE MaxDepth

\* calculate_dit: one iteration of "while current in self.inheritance_tree"
dit_loop ==
    /\ pc = "dit"
    /\ current \in DOMAIN inheritance_tree
    /\ depth' = NextDepth(depth)
    /\ current' = inheritance_tree[current]
    /\ UNCHANGED <<tree, pos, pc, registry, caller, dit_arg, report_locals, returns, calls>>

\* calculate_dit: the loop ends and the call made on the analyzer returns depth
dit_return ==
    /\ pc = "dit"
    /\ caller = "api"
    /\ current \notin DOMAIN inheritance_tree
    /\ returns' = Append(returns, Return("calculate_dit", dit_arg, depth, <<>>))
    /\ pc' = "ready"
    /\ caller' = "none"
    /\ dit_arg' = None
    /\ depth' = 0
    /\ current' = None
    /\ UNCHANGED <<tree, pos, registry, report_locals, calls>>

\* calculate_cbo callable while the visitor is still at work
calculate_cbo_DuringVisit(class_name) ==
    /\ pc \in {"visit", "ready"}
    /\ calls < MaxCalls
    /\ calls' = calls + 1
    /\ coupling' = DefaultTouch(coupling, class_name, {})
    /\ returns' = Append(returns,
                         Return("calculate_cbo", class_name, CboOf(coupling, class_name), <<>>))
    /\ UNCHANGED <<tree, pos, pc, classes, current_class, inheritance_tree,
                   methods_per_class, attributes_per_class, method_attribute_usage,
                   dit_locals, report_locals>>

\* calculate_cbo(class_name)
calculate_cbo(class_name) ==
    /\ pc = "ready"
    /\ calls < MaxCalls
    /\ calls' = calls + 1
    /\ coupling' = DefaultTouch(coupling, class_name, {})
    /\ returns' = Append(returns,
                         Return("calculate_cbo", class_name, CboOf(coupling, class_name), <<>>))
    /\ UNCHANGED <<tree, pos, pc, classes, current_class, inheritance_tree,
                   methods_per_class, attributes_per_class, method_attribute_usage,
                   dit_locals, report_locals>>

\* calculate_lcom's reads of the two defaultdicts
LcomTouchUsage(mpc, mau, class_name) ==
    IF Len(DictGet(mpc, class_name, <<>>)) <= 1 THEN mau
    ELSE DefaultTouch(mau, class_name, EmptyDict)

\* calculate_lcom(class_name)
calculate_lcom(class_name) ==
    /\ pc = "ready"
    /\ calls < MaxCalls
    /\ calls' = calls + 1
    /\ methods_per_class' = DefaultTouch(methods_per_class, class_name, <<>>)
    /\ method_attribute_usage' =
           LcomTouchUsage(methods_per_class, method_attribute_usage, class_name)
    /\ returns' = Append(returns,
                         Return("calculate_lcom", class_name,
                                LcomOf(methods_per_class, method_attribute_usage, class_name),
                                <<>>))
    /\ UNCHANGED <<tree, pos, pc, classes, current_class, inheritance_tree, coupling,
                   attributes_per_class, dit_locals, report_locals>>

\* the calls of generate_report that have returned
Renders == {i \in 1..Len(returns) : returns[i].op = "generate_report"}

\* the calls of generate_report made in a row up to now
RECURSIVE RendersInARow(_)
RendersInARow(n) ==
    IF n = 0 \/ returns[n].op # "generate_report" THEN 0 ELSE 1 + RendersInARow(n - 1)

\* a call of generate_report that follows another one directly is not counted
\* in calls; at most MaxRenders are made in a row
MayRender ==
    IF RendersInARow(Len(returns)) = 0 THEN calls < MaxCalls
    ELSE RendersInARow(Len(returns)) < MaxRenders

CallsAfterRender == IF RendersInARow(Len(returns)) = 0 THEN calls + 1 ELSE calls

\* generate_report with the list of lines kept from one call to the next
generate_report_KeepsLines ==
    /\ pc = "ready"
    /\ MayRender
    /\ calls' = CallsAfterRender
    /\ pc' = "report"
    /\ ri' = 1
    /\ report' = IF Renders = {} THEN <<>>
                 ELSE returns[CHOOSE i \in Renders : \A j \in Renders : j <= i].rows
    /\ UNCHANGED <<tree, pos, registry, dit_locals, returns>>

\* generate_report up to the loop over the class names of the table
generate_report ==
    /\ pc = "ready"
    /\ MayRender
    /\ calls' = CallsAfterRender
    /\ pc' = "report"
    /\ ri' = 1
    /\ report' = <<>>
    /\ UNCHANGED <<tree, pos, registry, dit_locals, returns>>

\* generate_report: the loop takes its next class name; a class of the
\* registry starts its row with dit = self.calculate_dit(class_name)
report_loop ==
    /\ pc = "report"
    /\ ri <= Len(ReportClassNames)
    /\ IF ReportClassNames[ri] \in DOMAIN classes
       THEN /\ pc' = "dit"
            /\ caller' = "report"
            /\ dit_arg' = ReportClassNames[ri]
            /\ depth' = 0
            /\ current' = ReportClassNames[ri]
            /\ UNCHANGED ri
       ELSE /\ ri' = ri + 1
            /\ UNCHANGED <<pc, dit_locals>>
    /\ UNCHANGED <<tree, pos, registry, report, returns, calls>>

\* one row of the table
Row(class_name, dit, cbo, lcom, methods, attrs) ==
    [class_name |-> class_name, dit |-> dit, cbo |-> cbo, lcom |-> lcom,
     methods |-> methods, attrs |-> attrs,
     issue_str |-> IssueStr(IssuesOf(cbo, lcom, methods))]

\* generate_report: calculate_dit has returned; the rest of the row
report_row ==
    /\ pc = "dit"
    /\ caller = "report"
    /\ current \notin DOMAIN inheritance_tree
    /\ coupling' = DefaultTouch(coupling, dit_arg, {})
    /\ methods_per_class' = DefaultTouch(methods_per_class, dit_arg, <<>>)
    /\ method_attribute_usage' =
           LcomTouchUsage(methods_per_class, method_attribute_usage, dit_arg)
    /\ attributes_per_class' = DefaultTouch(attributes_per_class, dit_arg, {})
    /\ report' = Append(report,
                        Row(dit_arg, depth, CboOf(coupling, dit_arg),
                            LcomOf(methods_per_class, method_attribute_usage, dit_arg),
                            Len(DictGet(methods_per_class, dit_arg, <<>>)),
                            Cardinality(DictGet(attributes_per_class, dit_arg, {}))))
    /\ ri' = ri + 1
    /\ pc' = "report"
    /\ caller' = "none"
    /\ dit_arg' = None
    /\ depth' = 0
    /\ current' = None
    /\ UNCHANGED <<tree, pos, classes, current_class, inheritance_tree, returns, calls>>

\* generate_report: the loop is over; the report text is returned
report_return ==
    /\ pc = "report"
    /\ ri > Len(ReportClassNames)
    /\ returns' = Append(returns, Return("generate_report", None, CCLines, report))
    /\ pc' = "ready"
    /\ ri' = 0
    /\ report' = <<>>
    /\ UNCHANGED <<tree, pos, registry, dit_locals, calls>>

\* the class names a caller passes to the calculate_ methods
CallNames == (DOMAIN classes) \cup {Unregistered}

Next ==
    \/ visit_ClassDef
    \/ \E c \in CallNames : calculate_dit(c)
    \/ dit_loop
    \/ dit_return
    \/ \E c \in CallNames : calculate_cbo(c)
    \/ \E c \in CallNames : calculate_lcom(c)
    \/ generate_report
    \/ report_loop
    \/ report_row
    \/ report_return

Spec == Init /\ [][Next]_vars

\* a started loop iteration is taken: the interpreter keeps running
FairSpec == Spec /\ WF_vars(dit_loop) /\ WF_vars(dit_return) /\ WF_vars(report_row)

(***************************************************************************)
(* What the unit declares, read off the unit itself.                       *)
(***************************************************************************)
\* the positions of the declarations of class c in the unit
DeclsOf(c) == {i \in 1..Len(tree) : tree[i].name = c}

Declared == {tree[i].name : i \in 1..Len(tree)}

\* the base lists the declarations of c give
DeclaredBases(c) == {tree[i].bases : i \in DeclsOf(c)}

\* the build pass is over
Built == pc # "visit"

DitReturns == {i \in 1..Len(returns) : returns[i].op = "calculate_dit"}

CboReturns == {i \in 1..Len(returns) : returns[i].op = "calculate_cbo"}

LcomReturns == {i \in 1..Len(returns) : returns[i].op = "calculate_lcom"}

ReportReturns == Renders

\* Parent hops from c to a class that declares no base, along declarations
\* that give each class of the chain one base list of at most one ast.Name
\* base; -1 when the chain leaves the registry, is cyclic (fuel runs out),
\* or a class of it declares several bases, a base that is no name, or
\* different bases in different declarations.
RECURSIVE ChainHops(_, _)
ChainHops(c, fuel) ==
    IF c \notin Declared \/ Cardinality(DeclaredBases(c)) # 1 THEN -1
    ELSE LET bs == CHOOSE b \in DeclaredBases(c) : TRUE
         IN  IF bs = <<>> THEN 0
             ELSE IF Len(bs) # 1 \/ ~IsName(bs[1]) \/ fuel = 0 THEN -1
             ELSE LET h == ChainHops(bs[1], fuel - 1)
                  IN  IF h < 0 THEN -1 ELSE h + 1

(***************************************************************************)
(* C1: for a class whose ancestor chain is acyclic, lies wholly inside the *)
(* registry and ends after n parent hops at a class that declares no base, *)
(* calculate_dit returns n (n = 0 for a class with no base, n = 1 for a    *)
(* class whose base is such a root).                                       *)
(***************************************************************************)
C1_DitIsChainLength ==
    /\ \A i \in DitReturns :
           LET n == ChainHops(returns[i].arg, Len(tree))
           IN  n >= 0 => returns[i].value = n
    /\ \A i \in {r \in 1..Len(returns) : returns[r].op = "generate_report"} :
           \A k \in 1..Len(returns[i].rows) :
               LET n == ChainHops(returns[i].rows[k].class_name, Len(tree))
               IN  n >= 0 => returns[i].rows[k].dit = n

\* calculate_dit has returned 2 for a class two hops above a root
C1_Witness ==
    \E i \in DitReturns :
        /\ ChainHops(returns[i].arg, Len(tree)) = 2
        /\ returns[i].value = 2

(***************************************************************************)
(* C2: a class whose declared base-class name names no class of the        *)
(* registry has DIT 0.                                                     *)
(***************************************************************************)
C2_UnknownBaseDitZero ==
    \A i \in DitReturns :
        LET c == returns[i].arg
        IN  (/\ c \in DOMAIN classes
             /\ classes[c].base_classes # <<>>
             /\ \A k \in 1..Len(classes[c].base_classes) :
                    classes[c].base_classes[k] \notin DOMAIN classes)
            => returns[i].value = 0

(***************************************************************************)
(* C3: calculate_dit terminates on every registry, cyclic parent links     *)
(* included: a started call (made directly or by generate_report) ends.    *)
(***************************************************************************)
C3_DitTerminates == (pc = "dit") ~> (pc # "dit")

\* the ids of the ast.Name nodes in a walk
NamesIn(walk) == {walk[k].id : k \in {n \in 1..Len(walk) : walk[n].k = "name"}}

\* the attributes a walk reaches through self
AttrsIn(walk) == {walk[k].id : k \in {n \in 1..Len(walk) : walk[n].k = "self_attr"}}

\* the positions of the methods in the body of declaration i
MethodsAt(i) == {j \in 1..Len(tree[i].body) : tree[i].body[j].kind = "FunctionDef"}

\* the identifiers the methods of class c reference
RefsOf(c) ==
    UNION {UNION {NamesIn(tree[i].body[j].walk) : j \in MethodsAt(i)} : i \in DeclsOf(c)}

\* the unit with one more reference to x at the end of method j of declaration i
AddRef(unit, i, j, x) ==
    [unit EXCEPT ![i].body[j].walk = Append(@, NameRef(x))]

(***************************************************************************)
(* C4: CBO is the number of distinct class names the methods of the class  *)
(* reference, whatever the number of references: a further reference to a  *)
(* class already referenced, in any method of the class, leaves CBO as it  *)
(* is.                                                                     *)
(***************************************************************************)
C4_CboCountsDistinctNames ==
    \A r \in CboReturns :
        LET c == returns[r].arg
        IN  /\ returns[r].value = Cardinality((RefsOf(c) \cap KnownClassNames) \ {c})
            /\ \A i \in DeclsOf(c) : \A j \in MethodsAt(i) : \A x \in RefsOf(c) :
                   CboOf(Build(AddRef(tree, i, j, x)).coupling, c) = returns[r].value

\* Course, Lecturer, Registrar and Course again in one method: CBO 3
C4_Witness ==
    \E r \in CboReturns :
        /\ \E w \in RefSingles :
              tree = <<ClassDef("Student", <<>>,
                                <<FunctionDef("m1", RefRun(1, 4)), FunctionDef("m2", w)>>)>>
        /\ returns[r].arg = "Student"
        /\ returns[r].value = 3

(***************************************************************************)
(* C5 as claimed: after the build pass every name counted in a class's     *)
(* CBO names a class of the unit's registry and is not the class itself.   *)
(***************************************************************************)
C5_CountedNamesAreRegistered ==
    Built => \A c \in DOMAIN coupling : \A x \in coupling[c] :
                 x \in DOMAIN classes /\ x # c

(***************************************************************************)
(* C5 as amended: after the build pass every name counted in a class's CBO *)
(* is one of the five names analyze_method lists (Student, Course,         *)
(* Lecturer, Registrar, Person), declared in the unit or not, and is not   *)
(* the class itself: no other identifier contributes, and a class's        *)
(* reference to its own name never does.                                   *)
(***************************************************************************)
C5_CountedNamesAreListed ==
    Built => \A c \in DOMAIN coupling : \A x \in coupling[c] :
                 x \in {"Student", "Course", "Lecturer", "Registrar", "Person"} /\ x # c

\* a built class that references itself and an unlisted identifier, and has
\* coupling entries
C5_Witness ==
    /\ pc = "ready"
    /\ \E c \in DOMAIN classes :
          /\ c \in RefsOf(c)
          /\ RefsOf(c) \ KnownClassNames # {}
          /\ c \in DOMAIN coupling
          /\ coupling[c] # {}

(***************************************************************************)
(* C6 as claimed: after the build pass every class of the registry that a  *)
(* method of another class references by name is counted in that class's   *)
(* CBO, and the order of the declarations does not change any CBO.         *)
(***************************************************************************)
UnitPermutations ==
    {[i \in 1..Len(tree) |-> tree[p[i]]] : p \in Permutations(1..Len(tree))}

OrderIndependent ==
    \A u \in UnitPermutations : \A c \in DOMAIN classes :
        CboOf(Build(u).coupling, c) = CboOf(coupling, c)

C6_RegisteredRefsCounted ==
    (pc = "ready" /\ calls = 0) =>
        /\ \A c \in DOMAIN classes : \A x \in (DOMAIN classes) \ {c} :
               x \in RefsOf(c) => x \in DictGet(coupling, c, {})
        /\ OrderIndependent

(***************************************************************************)
(* C6 as amended: every class whose name is one of the five names          *)
(* analyze_method lists and that a method of another class references by   *)
(* name is counted in that class's CBO, whether it is declared before or  *)
(* after the referencing class; the order of the declarations does not     *)
(* change any CBO.                                                         *)
(***************************************************************************)
C6_ListedRefsCounted ==
    (pc = "ready" /\ calls = 0) =>
        /\ \A c \in DOMAIN classes :
             \A x \in {"Student", "Course", "Lecturer", "Registrar", "Person"} \ {c} :
               x \in RefsOf(c) => x \in DictGet(coupling, c, {})
        /\ OrderIndependent

\* a class counts a listed class that the unit declares after it
C6_Witness ==
    /\ pc = "ready"
    /\ Len(tree) = 2
    /\ tree[1].name # tree[2].name
    /\ tree[2].name \in RefsOf(tree[1].name)
    /\ tree[2].name \in DictGet(coupling, tree[1].name, {})

\* the method declarations made on class c: <<declaration, body position>>
MethodDeclsOf(c) == UNION {{<<i, j>> : j \in MethodsAt(i)} : i \in DeclsOf(c)}

DeclaredMethodCount(c) == Cardinality(MethodDeclsOf(c))

\* the attributes the method declaration d reaches through self
DeclAttrs(d) == AttrsIn(tree[d[1]].body[d[2]].walk)

\* the unordered pairs of distinct method declarations of c
DeclPairs(c) ==
    {dd \in MethodDeclsOf(c) \X MethodDeclsOf(c) :
        \/ dd[1][1] < dd[2][1]
        \/ dd[1][1] = dd[2][1] /\ dd[1][2] < dd[2][2]}

PairsSharing(c) == Cardinality({dd \in DeclPairs(c) : DeclAttrs(dd[1]) \cap DeclAttrs(dd[2]) # {}})

PairsDisjoint(c) == Cardinality({dd \in DeclPairs(c) : DeclAttrs(dd[1]) \cap DeclAttrs(dd[2]) = {}})

(***************************************************************************)
(* C7: calculate_lcom returns max(P - Q, 0) over the unordered pairs of    *)
(* distinct method declarations of the class, each declaration with its    *)
(* own attribute-access set (two declarations of one name are two          *)
(* methods), Q the pairs whose sets intersect and P the pairs whose sets   *)
(* are disjoint.                                                           *)
(***************************************************************************)
C7_LcomIsPMinusQ ==
    \A r \in LcomReturns :
        LET c == returns[r].arg
        IN  c \in DOMAIN classes =>
                returns[r].value =
                    IF PairsDisjoint(c) - PairsSharing(c) > 0
                    THEN PairsDisjoint(c) - PairsSharing(c) ELSE 0

(***************************************************************************)
(* C8: for a class with zero or one declared method, and for a class name  *)
(* that was never registered, calculate_lcom returns 0.                    *)
(***************************************************************************)
C8_LcomZeroUpToOneMethod ==
    \A r \in LcomReturns :
        (returns[r].arg \notin Declared \/ DeclaredMethodCount(returns[r].arg) <= 1)
            => returns[r].value = 0

\* calculate_lcom has returned 0 for a class whose one method touches an attribute
C8_Witness ==
    \E r \in LcomReturns :
        /\ DeclaredMethodCount(returns[r].arg) = 1
        /\ \E d \in MethodDeclsOf(returns[r].arg) : DeclAttrs(d) # {}
        /\ returns[r].value = 0

\* x is one of the comma-joined pieces of an issue field
HasFlag(issue_str, x) == \E k \in 1..Len(issue_str) : issue_str[k] = x

\* the rows of the reports returned so far
ReportedRows == UNION {{returns[r].rows[k] : k \in 1..Len(returns[r].rows)} : r \in ReportReturns}

(***************************************************************************)
(* C9: the high-coupling flag is in a class's issue field exactly when its *)
(* CBO, the number of distinct counted names its methods reference, is     *)
(* greater than 3.                                                         *)
(***************************************************************************)
C9_HighCouplingIffCboAbove3 ==
    \A row \in ReportedRows :
        LET cbo == Cardinality((RefsOf(row.class_name) \cap KnownClassNames) \ {row.class_name})
        IN  /\ row.cbo = cbo
            /\ HasFlag(row.issue_str, "High coupling") <=> cbo > 3

\* a reported class with CBO 4 carries the flag
C9_Witness ==
    \E row \in ReportedRows : row.cbo = 4 /\ HasFlag(row.issue_str, "High coupling")

(***************************************************************************)
(* C10: the too-many-methods flag is in a class's issue field exactly when *)
(* the number of methods declared directly on the class is greater than 7. *)
(***************************************************************************)
C10_TooManyMethodsIffAbove7 ==
    \A row \in ReportedRows :
        /\ row.methods = DeclaredMethodCount(row.class_name)
        /\ HasFlag(row.issue_str, "Too many methods") <=> DeclaredMethodCount(row.class_name) > 7

\* a reported class that one declaration gives 8 methods carries the flag
C10_Witness ==
    \E row \in ReportedRows :
        /\ Cardinality(DeclsOf(row.class_name)) = 1
        /\ DeclaredMethodCount(row.class_name) = 8
        /\ HasFlag(row.issue_str, "Too many methods")

(***************************************************************************)
(* C11: for every combination of CBO, LCOM and method count the issue      *)
(* field is OK when no limit is exceeded and otherwise lists exactly the   *)
(* flags that apply, each decided on its own (high coupling iff CBO > 3,   *)
(* low cohesion iff LCOM > 5, too many methods iff method count > 7), in   *)
(* the order high coupling, low cohesion, too many methods.                *)
(***************************************************************************)
C11_IssueFieldListsApplicableFlags ==
    \A row \in ReportedRows :
        LET hc == row.cbo > 3
            lc == row.lcom > 5
            tm == row.methods > 7
            flags == (IF hc THEN <<"High coupling">> ELSE <<>>)
                     \o (IF lc THEN <<"Low cohesion">> ELSE <<>>)
                     \o (IF tm THEN <<"Too many methods">> ELSE <<>>)
        IN  row.issue_str = IF ~hc /\ ~lc /\ ~tm THEN <<"OK">> ELSE flags

\* a reported class exceeds all three limits and carries the three flags in order
C11_Witness ==
    \E row \in ReportedRows :
        /\ row.cbo > 3 /\ row.lcom > 5 /\ row.methods > 7
        /\ row.issue_str = <<"High coupling", "Low cohesion", "Too many methods">>

(***************************************************************************)
(* C12: two calls of generate_report on the same analyzer, with no build   *)
(* step in between, return the same text.                                  *)
(***************************************************************************)
C12_RenderTwiceSameText ==
    \A i \in ReportReturns : \A j \in ReportReturns :
        /\ returns[i].value = returns[j].value
        /\ returns[i].rows = returns[j].rows

\* a report with at least two rows has been rendered twice
C12_Witness ==
    \E i \in ReportReturns : \E j \in ReportReturns :
        i < j /\ Len(returns[i].rows) >= 2 /\ Len(returns[j].rows) >= 2

(***************************************************************************)
(* C13: the rows of the table name exactly the classes of the registry,    *)
(* one row per class, in the order in which the classes were first         *)
(* registered, whatever the class names are.                               *)
(***************************************************************************)
\* the class names of the first n declarations, each once, in the order of
\* their first declaration (the key order of self.classes)
RECURSIVE FirstRegistered(_)
FirstRegistered(n) ==
    IF n = 0 THEN <<>>
    ELSE IF \E i \in 1..(n - 1) : tree[i].name = tree[n].name THEN FirstRegistered(n - 1)
    ELSE Append(FirstRegistered(n - 1), tree[n].name)

RowNames(rows) == [k \in 1..Len(rows) |-> rows[k].class_name]

C13_RowsInRegistrationOrder ==
    \A r \in ReportReturns : RowNames(returns[r].rows) = FirstRegistered(Len(tree))

(***************************************************************************)
(* C14: the cyclomatic complexity reported for each method of the unit is  *)
(* 1 plus the number of decision points of the method's body, and 1 for a  *)
(* method without decision points.                                         *)
(***************************************************************************)
DecisionPoints(walk) == Cardinality({n \in 1..Len(walk) : walk[n].k = "branch"})

C14_CcIsOnePlusDecisionPoints ==
    \A r \in ReportReturns : \A i \in 1..Len(tree) : \A j \in MethodsAt(i) :
        \E l \in 1..Len(returns[r].value) :
            /\ returns[r].value[l].class_name = tree[i].name
            /\ returns[r].value[l].method = tree[i].body[j].name
            /\ returns[r].value[l].cc = 1 + DecisionPoints(tree[i].body[j].walk)

(***************************************************************************)
(* C15: each of the three thresholds can be overridden independently of    *)
(* the other two, the flags being decided against the overridden value; a  *)
(* threshold left unspecified takes its default 3, 5 or 7.                 *)
(***************************************************************************)
\* the threshold values an analysis may be asked for: each threshold is left
\* at its default or raised by one. analyze_file takes the file path alone,
\* so the report of a run is the same whatever is asked for.
Overrides ==
    [cboHighCoupling : {3, 4}, lcomLowCohesion : {5, 6}, maxMethodCount : {7, 8}]

C15_FlagsFollowOverrides ==
    \A cfg \in Overrides : \A row \in ReportedRows :
        /\ HasFlag(row.issue_str, "High coupling") <=> row.cbo > cfg.cboHighCoupling
        /\ HasFlag(row.issue_str, "Low cohesion") <=> row.lcom > cfg.lcomLowCohesion
        /\ HasFlag(row.issue_str, "Too many methods") <=> row.methods > cfg.maxMethodCount

(***************************************************************************)
(* C16: when a class declares more than one base class, the parent         *)
(* recorded for it and followed by DIT is the first base-class reference;  *)
(* later bases never replace it.                                           *)
(***************************************************************************)
C16_FirstBaseIsParent ==
    Built =>
        \A i \in 1..Len(tree) :
            (DeclsOf(tree[i].name) = {i} /\ Len(tree[i].bases) > 1 /\ IsName(tree[i].bases[1]))
                => /\ tree[i].name \in DOMAIN inheritance_tree
                   /\ inheritance_tree[tree[i].name] = tree[i].bases[1]

(***************************************************************************)
(* C17: no DIT, CBO or LCOM value is computed before the build pass has    *)
(* visited every class declaration of the unit.                            *)
(***************************************************************************)
C17_MetricsAfterBuild ==
    (pc \in {"dit", "report"} \/ calls > 0 \/ returns # <<>>) => pos > Len(tree)

\* a report over a unit of at least two declarations has computed the metrics
\* of two classes
C17_Witness ==
    /\ Len(tree) >= 2
    /\ pos > Len(tree)
    /\ \E r \in ReportReturns : Len(returns[r].rows) >= 2

(***************************************************************************)
(* C18: computing DIT, CBO or LCOM for any class name, directly or through *)
(* generate_report, leaves the registry unchanged: the six dictionaries    *)
(* hold the keys and values the build pass gave them.                      *)
(***************************************************************************)
C18_MetricsLeaveRegistryUnchanged == Built => Registry = Build(tree)

(***************************************************************************)
(* C19: after the build pass the two method records of every class agree:  *)
(* methods_per_class[c] equals classes[c]['methods'], and the reported     *)
(* method count is the number of methods of one declaration of the class.  *)
(***************************************************************************)
C19_MethodRecordsAgree ==
    /\ Built => \A c \in DOMAIN classes :
                    DictGet(methods_per_class, c, <<>>) = classes[c].methods
    /\ \A row \in ReportedRows :
           \E i \in DeclsOf(row.class_name) : row.methods = Cardinality(MethodsAt(i))

====
